---------------------------- MODULE Spec2Model ----------------------------
(***************************************************************************)
(* Baby Buddy integration: the REST client (client.py) and the polling     *)
(* coordinator (__init__.py).                                              *)
(*                                                                         *)
(* Python dicts are functions; a missing key is a key outside DOMAIN.      *)
(* An awaited call either returns a value or raises; both are the record   *)
(* [exc, status, body] with exc = "none" for a normal return.              *)
(***************************************************************************)
EXTENDS Integers, Sequences, FiniteSets, TLC

(* Child identifiers the server may hand out are 1..MaxChild. *)
MaxChild == 2
(* Record identifiers addressed by Patch/Delete are 1..MaxEntry. *)
MaxEntry == 2

HTTP_OK == 200
HTTP_CREATED == 201
HTTP_NO_CONTENT == 204
HTTP_FORBIDDEN == 403

ATTR_CHILDREN == "children"
ATTR_COUNT == "count"
ATTR_RESULTS == "results"

(* The static endpoint-descriptor table, in iteration order. *)
SENSOR_TYPES == <<"feedings", "sleep">>

SensorKeys == {SENSOR_TYPES[j] : j \in DOMAIN SENSOR_TYPES}

ChildIdSet == 1..MaxChild

(* config_entry.entry_id of this coordinator, and of some other entry. *)
ThisEntry == "entry_babybuddy"
OtherEntry == "entry_other"

VARIABLES
    endpoints,      \* BabyBuddyClient.endpoints
    child_ids,      \* BabyBuddyCoordinator.child_ids
    data,           \* the value last returned by async_update (coordinator data)
    devices,        \* the host device registry
    services,       \* services registered with the host
    lastOp,         \* the operation that ran last
    outcome,        \* how it ended: [kind, msg]
    root_resp,      \* the server's answer to the root listing GET of lastOp
    children_resp,  \* the server's answer to the children-list GET of lastOp
    endpoint_resp,  \* the server's answers to the per-child GETs of lastOp
    issued,         \* the per-child GETs lastOp sent, in order
    pc,             \* where async_update stands: idle, endpoint, reconcile
    children_list,  \* async_update's local children_list
    child_data,     \* async_update's local child_data
    pos,            \* the loops' position: child i, endpoint j
    request,        \* the write request lastOp sent
    write_resp,     \* the server's answer to it
    client_log      \* what client.py logged during lastOp

vars == <<endpoints, child_ids, data, devices, services, lastOp, outcome,
          root_resp, children_resp, endpoint_resp, issued, pc,
          children_list, child_data, pos, request, write_resp, client_log>>

---------------------------------------------------------------------------
(* Dicts *)

EmptyDict == [k \in {} |-> 0]

HasKey(d, k) == k \in DOMAIN d

SetItem(d, k, v) == [x \in DOMAIN d \cup {k} |-> IF x = k THEN v ELSE d[x]]

SetDefault(d, k, v) == IF HasKey(d, k) THEN d ELSE SetItem(d, k, v)

SeqToSet(s) == {s[i] : i \in DOMAIN s}

---------------------------------------------------------------------------
(* What the server can answer *)

(* GET {base}/api/ : the endpoint name -> URL map. *)
RootListing ==
    [children |-> "/api/children/", feedings |-> "/api/feedings/",
     sleep |-> "/api/sleep/"]

ErrorStatuses == {401, HTTP_FORBIDDEN, 404, 500}

Transport == {"timeout", "client_error"}

NoResp(b) == [kind |-> "none", status |-> 0, body |-> b]

Failures(b) ==
    {[kind |-> "http", status |-> s, body |-> b] : s \in ErrorStatuses}
    \cup {[kind |-> k, status |-> 0, body |-> b] : k \in Transport}

RootResponses ==
    {[kind |-> "ok", status |-> HTTP_OK, body |-> RootListing]}
    \cup Failures(RootListing)

(* The server lists every child once and in a stable order; the ids are   *)
(* numbered in that order, so a list is an ascending sequence of children, *)
(* a child being its id.                                                   *)
ChildLists ==
    {r \in UNION {[1..n -> [id : ChildIdSet]] : n \in 0..MaxChild} :
        \A i, j \in DOMAIN r : i < j => r[i].id < r[j].id}

NoChildren == [count |-> 0, results |-> <<>>]

ChildrenResponses ==
    {[kind |-> "ok", status |-> HTTP_OK,
      body |-> [count |-> Len(r), results |-> r]] : r \in ChildLists}
    \cup Failures(NoChildren)

(* ?child=..&limit=1 : at most one record comes back. *)
LatestRecord == "latest"
EmptyRecord == "{}"

EndpointResponses ==
    {[kind |-> "ok", status |-> HTTP_OK, body |-> [results |-> rs]] :
        rs \in {<<>>, <<LatestRecord>>}}
    \cup {[kind |-> "http", status |-> 404, body |-> [results |-> <<>>]],
          [kind |-> "timeout", status |-> 0, body |-> [results |-> <<>>]]}

WriteStatuses == {HTTP_OK, HTTP_CREATED, HTTP_NO_CONTENT, 400}

WriteResponses ==
    {[kind |-> "status", status |-> s] : s \in WriteStatuses}
    \cup {[kind |-> k, status |-> 0] : k \in Transport}

NoWrite == [kind |-> "none", status |-> 0]

Payloads == {"payload_a", "payload_b"}

EndpointNames == {ATTR_CHILDREN} \cup SensorKeys

NoRequest == [method |-> "none", url |-> "", entry |-> 0, data |-> ""]

---------------------------------------------------------------------------
(* client.py *)

Returned(b) == [exc |-> "none", status |-> HTTP_OK, body |-> b]

Raised(e, s, b) == [exc |-> e, status |-> s, body |-> b]

(* session.get(..., raise_for_status=True) under async_timeout.timeout(10) *)
SessionGet(resp) ==
    CASE resp.kind = "ok" -> Returned(resp.body)
      [] resp.kind = "http" -> Raised("ClientResponseError", resp.status, resp.body)
      [] resp.kind = "timeout" -> Raised("TimeoutError", 0, resp.body)
      [] OTHER -> Raised("ClientError", 0, resp.body)

(* async_get(): the root listing *)
AsyncGetRoot(resp) == SessionGet(resp)

(* async_get(endpoint, entry): the URL is looked up in self.endpoints *)
AsyncGet(endpoint, resp) ==
    IF ~HasKey(endpoints, endpoint)
    THEN Raised("KeyError", 0, resp.body)
    ELSE SessionGet(resp)

(* async_connect: [exc, endpoints] *)
AsyncConnectResult(resp) ==
    LET got == AsyncGetRoot(resp) IN
    CASE got.exc = "none" -> [exc |-> "none", endpoints |-> got.body]
      [] got.exc = "ClientResponseError" ->
            [exc |-> "AuthorizationError", endpoints |-> endpoints]
      [] OTHER -> [exc |-> "ConnectError", endpoints |-> endpoints]

Out(k, m) == [kind |-> k, msg |-> m]

(* Lines after the try block of async_post/patch/delete: resp is bound     *)
(* only if the request returned.                                           *)
WriteResult(wr, expected, what) ==
    IF wr.kind = "status"
    THEN [outcome |-> Out("returned", ""),
          log |-> IF wr.status # expected THEN <<what>> ELSE <<>>]
    ELSE [outcome |-> Out("UnboundLocalError", "resp"),
          log |-> <<"error: transport">>]

ClientFrame ==
    UNCHANGED <<child_ids, data, devices, services, pc, children_resp,
                children_list, child_data, pos, endpoint_resp, issued>>

Write(op, method, endpoint, entry, payload, expected, what) ==
    /\ lastOp' = op
    /\ ClientFrame
    /\ root_resp' = NoResp(RootListing)
    /\ UNCHANGED endpoints
    /\ IF ~HasKey(endpoints, endpoint)
       THEN /\ outcome' = Out("KeyError", endpoint)
            /\ request' = NoRequest
            /\ write_resp' = NoWrite
            /\ client_log' = <<>>
       ELSE \E wr \in WriteResponses :
            LET res == WriteResult(wr, expected, what) IN
            /\ request' = [method |-> method, url |-> endpoints[endpoint],
                           entry |-> entry, data |-> payload]
            /\ write_resp' = wr
            /\ outcome' = res.outcome
            /\ client_log' = res.log

AsyncPost ==
    \E e \in EndpointNames, p \in Payloads :
        Write("async_post", "POST", e, 0, p, HTTP_CREATED, "error: could not create")

AsyncPatch ==
    \E e \in EndpointNames, n \in 1..MaxEntry, p \in Payloads :
        Write("async_patch", "PATCH", e, n, p, HTTP_OK, "error: could not update")

AsyncDelete ==
    \E e \in EndpointNames, n \in 1..MaxEntry :
        Write("async_delete", "DELETE", e, n, "", HTTP_NO_CONTENT, "error: could not delete")

AsyncConnect ==
    \E resp \in RootResponses :
        LET res == AsyncConnectResult(resp) IN
        /\ lastOp' = "async_connect"
        /\ endpoints' = res.endpoints
        /\ outcome' = Out(IF res.exc = "none" THEN "returned" ELSE res.exc, "")
        /\ root_resp' = resp
        /\ request' = NoRequest
        /\ write_resp' = NoWrite
        /\ client_log' = <<>>
        /\ ClientFrame

---------------------------------------------------------------------------
(* The host device registry: one device per child of this entry, and the   *)
(* devices of another config entry.                                        *)

Device(c, e) == [child |-> c, config_entries |-> {e}]

AllDevices ==
    {Device(c, ThisEntry) : c \in ChildIdSet} \cup {Device(1, OtherEntry)}

NoData == [children |-> <<>>, child_data |-> EmptyDict]

Init ==
    /\ endpoints = EmptyDict
    /\ child_ids = <<>>
    /\ data = NoData
    /\ devices = AllDevices
    /\ services = {}
    /\ lastOp = "init"
    /\ outcome = Out("returned", "")
    /\ root_resp = NoResp(RootListing)
    /\ children_resp = NoResp(NoChildren)
    /\ endpoint_resp = EmptyDict
    /\ issued = <<>>
    /\ pc = "idle"
    /\ children_list = EmptyDict
    /\ child_data = EmptyDict
    /\ pos = [i |-> 0, j |-> 0]
    /\ request = NoRequest
    /\ write_resp = NoWrite
    /\ client_log = <<>>

ClientNext == AsyncConnect \/ AsyncPost \/ AsyncPatch \/ AsyncDelete

SpecClient == Init /\ [][ClientNext]_vars

---------------------------------------------------------------------------
(* __init__.py: BabyBuddyCoordinator *)

NoWriting ==
    /\ request' = NoRequest
    /\ write_resp' = NoWrite
    /\ client_log' = <<>>

(* async_setup: [outcome, endpoints, services] *)
AsyncSetupResult(resp) ==
    LET conn == AsyncConnectResult(resp) IN
    CASE conn.exc = "AuthorizationError" ->
            [outcome |-> Out("ConfigEntryAuthFailed", ""),
             endpoints |-> conn.endpoints, services |-> services]
      [] conn.exc = "ConnectError" ->
            [outcome |-> Out("ConfigEntryNotReady", ""),
             endpoints |-> conn.endpoints, services |-> services]
      [] OTHER ->
            [outcome |-> Out("returned", ""),
             endpoints |-> conn.endpoints,
             services |-> services \cup {"add_child"}]

(* async_setup_entry builds the coordinator and awaits async_setup before *)
(* the first refresh; a failed setup is retried by the host with a new    *)
(* coordinator, whose state is the initial one.                            *)
AsyncSetup ==
    /\ pc = "idle"
    /\ endpoints = EmptyDict
    /\ \E resp \in RootResponses :
        LET res == AsyncSetupResult(resp) IN
        /\ lastOp' = "async_setup"
        /\ outcome' = res.outcome
        /\ endpoints' = res.endpoints
        /\ services' = res.services
        /\ root_resp' = resp
        /\ NoWriting
        /\ UNCHANGED <<child_ids, data, devices, pc, children_resp,
                       children_list, child_data, pos, endpoint_resp, issued>>

(* Variant: the registry is not filtered by config entry. *)
EntriesOfAnyEntry(dr, entry_id) == dr

(* async_entries_for_config_entry(dr, entry_id) *)
EntriesForConfigEntry(dr, entry_id) ==
    {device \in dr : entry_id \in device.config_entries}

(* async_remove_deleted_childs: the registry it leaves *)
RemoveDeletedChilds(dr, ids) ==
    dr \ {device \in EntriesForConfigEntry(dr, ThisEntry) :
            device.child \notin SeqToSet(ids)}

(* Variant: the id is appended without the membership test. *)
AppendAlways(ids, c) == Append(ids, c)

(* if child[ATTR_ID] not in self.child_ids: self.child_ids.append(...) *)
AppendChildId(ids, c) ==
    IF c \notin SeqToSet(ids) THEN Append(ids, c) ELSE ids

(* Variant: the snapshot starts with an entry for every known id. *)
KnownChildData == [c \in SeqToSet(child_ids) |-> EmptyDict]

(* child_data = {} at the head of async_update *)
FreshChildData == EmptyDict

(* The head of the outer loop for one child, up to the first await:       *)
(* [child_ids, child_data].                                                *)
EnterChild(ids, cd, child) ==
    [child_ids |-> AppendChildId(ids, child.id),
     child_data |-> SetDefault(cd, child.id, EmptyDict)]

(* Variant: no continue in the except clauses, the slot gets endpoint_data *)
(* as initialised.                                                         *)
StoreEndpointNoContinue(cd, c, key, got) ==
    LET rs == IF got.exc = "none" THEN got.body[ATTR_RESULTS] ELSE <<>>
        latest == IF rs # <<>> THEN rs[1] ELSE EmptyRecord
    IN  SetItem(cd, c, SetItem(cd[c], key, latest))

(* The body of the inner loop once the GET for (c, key) has ended:        *)
(* the child_data it leaves.                                               *)
StoreEndpoint(cd, c, key, got) ==
    IF got.exc # "none"
    THEN cd
    ELSE LET rs == got.body[ATTR_RESULTS]
             latest == IF rs # <<>> THEN rs[1] ELSE EmptyRecord
         IN  SetItem(cd, c, SetItem(cd[c], key, latest))

(* Variant: the status tested is 401 instead of HTTP_FORBIDDEN. *)
ChildrenFetchRaisesOn401(got) ==
    CASE got.exc = "ClientResponseError" ->
            IF got.status = 401
            THEN Out("ConfigEntryAuthFailed", "")
            ELSE Out("none", "")
      [] got.exc \in {"TimeoutError", "ClientError"} ->
            Out("UpdateFailed", got.exc)
      [] got.exc = "KeyError" -> Out("KeyError", ATTR_CHILDREN)
      [] OTHER -> Out("none", "")

(* The except clauses around the children-list fetch: the exception the   *)
(* pass raises, or "none" when it goes on.                                 *)
ChildrenFetchRaises(got) ==
    CASE got.exc = "ClientResponseError" ->
            IF got.status = HTTP_FORBIDDEN
            THEN Out("ConfigEntryAuthFailed", "")
            ELSE Out("none", "")
      [] got.exc \in {"TimeoutError", "ClientError"} ->
            Out("UpdateFailed", got.exc)
      [] got.exc = "KeyError" -> Out("KeyError", ATTR_CHILDREN)
      [] OTHER -> Out("none", "")

NoChildrenFound == "No children found. Please add at least one child."

(* Variant: the count is tested with < instead of ==. *)
CountCheckNegative(cl) ==
    IF ~HasKey(cl, ATTR_COUNT)
    THEN Out("KeyError", ATTR_COUNT)
    ELSE IF cl[ATTR_COUNT] < 0
         THEN Out("UpdateFailed", NoChildrenFound)
         ELSE Out("none", "")

(* if children_list[ATTR_COUNT] == 0: raise UpdateFailed(...) *)
CountCheckRaises(cl) ==
    IF ~HasKey(cl, ATTR_COUNT)
    THEN Out("KeyError", ATTR_COUNT)
    ELSE IF cl[ATTR_COUNT] = 0
         THEN Out("UpdateFailed", NoChildrenFound)
         ELSE Out("none", "")

(* Variant: the reconciliation also runs when the pass raises. *)
DevicesReconciledOnRaise(dr) == RemoveDeletedChilds(dr, child_ids)

(* raise out of async_update: what the pass leaves of the registry *)
DevicesAfterRaise(dr) == dr

(* async_update from its head to its first await inside the loops, or to  *)
(* the exception that ends it.                                             *)
UpdateFetchChildren ==
    /\ pc = "idle"
    /\ endpoints # EmptyDict
    /\ \E cr \in ChildrenResponses :
        LET got == AsyncGet(ATTR_CHILDREN, cr)
            fetch == ChildrenFetchRaises(got)
            cl == IF got.exc = "none" THEN got.body ELSE EmptyDict
            chk == IF fetch.kind # "none" THEN fetch ELSE CountCheckRaises(cl)
        IN  /\ lastOp' = "async_update"
            /\ children_resp' = cr
            /\ children_list' = cl
            /\ endpoint_resp' = EmptyDict
            /\ issued' = <<>>
            /\ data' = NoData
            /\ root_resp' = NoResp(RootListing)
            /\ NoWriting
            /\ UNCHANGED <<endpoints, services>>
            /\ IF chk.kind # "none"
               THEN /\ outcome' = chk
                    /\ pc' = "idle"
                    /\ devices' = DevicesAfterRaise(devices)
                    /\ child_data' = FreshChildData
                    /\ pos' = [i |-> 0, j |-> 0]
                    /\ UNCHANGED child_ids
               ELSE IF cl[ATTR_RESULTS] = <<>>
               THEN /\ outcome' = Out("running", "")
                    /\ pc' = "reconcile"
                    /\ child_data' = FreshChildData
                    /\ pos' = [i |-> 0, j |-> 0]
                    /\ UNCHANGED <<child_ids, devices>>
               ELSE LET st == EnterChild(child_ids, FreshChildData,
                                         cl[ATTR_RESULTS][1])
                    IN  /\ outcome' = Out("running", "")
                        /\ pc' = "endpoint"
                        /\ child_ids' = st.child_ids
                        /\ child_data' = st.child_data
                        /\ pos' = [i |-> 1, j |-> 1]
                        /\ UNCHANGED devices

(* One GET of the inner loop ends; the loops run on to the next await.    *)
(* A KeyError of the URL lookup is caught by neither except clause.        *)
UpdateFetchEndpoint ==
    /\ pc = "endpoint"
    /\ \E resp \in EndpointResponses :
        LET results == children_list[ATTR_RESULTS]
            c == results[pos.i].id
            key == SENSOR_TYPES[pos.j]
            got == AsyncGet(key, resp)
            cd == StoreEndpoint(child_data, c, key, got)
        IN  IF got.exc = "KeyError"
            THEN /\ outcome' = Out("KeyError", key)
                 /\ pc' = "idle"
                 /\ UNCHANGED <<endpoint_resp, issued, pos, child_data,
                                child_ids>>
            ELSE
            /\ endpoint_resp' = SetItem(endpoint_resp, <<c, key>>, resp)
            /\ issued' = Append(issued, <<c, key>>)
            /\ UNCHANGED outcome
            /\ IF pos.j < Len(SENSOR_TYPES)
               THEN /\ pos' = [i |-> pos.i, j |-> pos.j + 1]
                    /\ child_data' = cd
                    /\ UNCHANGED <<child_ids, pc>>
               ELSE IF pos.i < Len(results)
               THEN LET st == EnterChild(child_ids, cd, results[pos.i + 1])
                    IN  /\ pos' = [i |-> pos.i + 1, j |-> 1]
                        /\ child_ids' = st.child_ids
                        /\ child_data' = st.child_data
                        /\ UNCHANGED pc
               ELSE /\ pos' = [i |-> 0, j |-> 0]
                    /\ child_data' = cd
                    /\ pc' = "reconcile"
                    /\ UNCHANGED child_ids
    /\ UNCHANGED <<endpoints, services, data, devices, lastOp,
                   root_resp, children_resp, children_list, request,
                   write_resp, client_log>>

(* await self.async_remove_deleted_childs(); return (...) *)
UpdateReconcile ==
    /\ pc = "reconcile"
    /\ devices' = RemoveDeletedChilds(devices, child_ids)
    /\ data' = [children |-> children_list[ATTR_RESULTS],
                child_data |-> child_data]
    /\ outcome' = Out("returned", "")
    /\ pc' = "idle"
    /\ UNCHANGED <<endpoints, services, child_ids, lastOp, root_resp,
                   children_resp, children_list, child_data, pos,
                   endpoint_resp, issued, request, write_resp, client_log>>

Next ==
    AsyncSetup \/ UpdateFetchChildren \/ UpdateFetchEndpoint \/ UpdateReconcile

Spec == Init /\ [][Next]_vars

---------------------------------------------------------------------------
(* Properties *)

Done == pc = "idle" /\ lastOp = "async_update"

PassReturned == Done /\ outcome.kind = "returned"

ListedIds == {r.id : r \in SeqToSet(children_resp.body.results)}

KnownIds == SeqToSet(child_ids)

FailedFetches == {p \in DOMAIN endpoint_resp : endpoint_resp[p].kind # "ok"}

NoDuplicates(s) == \A m, n \in DOMAIN s : s[m] = s[n] => m = n

(* C1: the snapshot a pass returns has exactly the ids of that pass's     *)
(* children list as its keys, whatever the per-child fetches did and      *)
(* whatever ids earlier passes made known.                                 *)
C1_SnapshotKeysAreListedIds ==
    PassReturned => DOMAIN data.child_data = ListedIds

(* A pass returned with a failed fetch while an id of an earlier pass,    *)
(* no longer listed, is still known.                                       *)
C1_Witness ==
    /\ PassReturned
    /\ FailedFetches # {}
    /\ KnownIds \ ListedIds # {}
    /\ DOMAIN data.child_data = ListedIds

(* C2: a transport or timeout failure of Post, Patch or Delete is logged  *)
(* and the operation returns normally.                                     *)
C2_WriteFailureReturns ==
    (lastOp \in {"async_post", "async_patch", "async_delete"}
        /\ write_resp.kind \in Transport)
    => (outcome.kind = "returned" /\ client_log # <<>>)

(* C3: Connect stores the root listing on success, fails with             *)
(* AuthorizationError exactly on 401/403 and with ConnectError on every   *)
(* other failure, so setup ends ConfigEntryAuthFailed only for rejected   *)
(* credentials and ConfigEntryNotReady for everything else.                *)
C3_ConnectOutcomes ==
    lastOp = "async_setup" =>
        /\ root_resp.kind = "ok"
            => (outcome.kind = "returned" /\ endpoints = root_resp.body)
        /\ (root_resp.kind = "http" /\ root_resp.status \in {401, HTTP_FORBIDDEN})
            => outcome.kind = "ConfigEntryAuthFailed"
        /\ (root_resp.kind \in Transport
            \/ (root_resp.kind = "http"
                /\ root_resp.status \notin {401, HTTP_FORBIDDEN}))
            => outcome.kind = "ConfigEntryNotReady"

(* C4: a failed fetch for a child/endpoint pair does not fail the pass;   *)
(* the returned snapshot has no entry for that pair, and every other pair *)
(* of the pass was fetched and holds what its own fetch returned.          *)
C4_FailedSlotAbsent ==
    /\ (lastOp = "async_update" /\ FailedFetches # {})
        => outcome.kind \in {"running", "returned"}
    /\ PassReturned =>
        /\ DOMAIN endpoint_resp = ListedIds \X SensorKeys
        /\ \A p \in DOMAIN endpoint_resp :
            LET slots == data.child_data[p[1]]
                rs == endpoint_resp[p].body.results
            IN  IF p \in FailedFetches
                THEN p[2] \notin DOMAIN slots
                ELSE /\ p[2] \in DOMAIN slots
                     /\ slots[p[2]] = IF rs = <<>> THEN EmptyRecord ELSE rs[1]

(* A pass returned in which, for one child, one endpoint failed and the   *)
(* other returned a record.                                                *)
C4_Witness ==
    /\ PassReturned
    /\ \E c \in ListedIds :
        /\ endpoint_resp[<<c, "feedings">>].kind = "http"
        /\ endpoint_resp[<<c, "sleep">>].body.results = <<LatestRecord>>
        /\ DOMAIN data.child_data[c] = {"sleep"}
        /\ data.child_data[c]["sleep"] = LatestRecord

(* C5: a forbidden answer to the children-list fetch ends the pass with   *)
(* ConfigEntryAuthFailed, the outcome of a setup whose connect was        *)
(* refused, and leaves no snapshot.                                        *)
C5_ForbiddenIsAuthFailure ==
    /\ (Done /\ children_resp.kind = "http"
             /\ children_resp.status = HTTP_FORBIDDEN)
        => (outcome = Out("ConfigEntryAuthFailed", "") /\ data = NoData)
    /\ (lastOp = "async_setup" /\ root_resp.kind = "http"
             /\ root_resp.status = HTTP_FORBIDDEN)
        => outcome = Out("ConfigEntryAuthFailed", "")

C5_Witness ==
    /\ Done
    /\ children_resp.kind = "http"
    /\ children_resp.status = HTTP_FORBIDDEN
    /\ outcome.kind = "ConfigEntryAuthFailed"

(* C6: a children list with count 0 fails the pass with the "no children" *)
(* UpdateFailed, which differs from the UpdateFailed of a timeout or      *)
(* transport error; no per-child fetch is sent and nothing is returned.    *)
C6_NoChildrenOutcome ==
    /\ (Done /\ children_resp.kind = "ok" /\ children_resp.body.count = 0)
        => /\ outcome = Out("UpdateFailed", NoChildrenFound)
           /\ issued = <<>>
           /\ data = NoData
    /\ (Done /\ children_resp.kind \in Transport)
        => (outcome.kind = "UpdateFailed" /\ outcome.msg # NoChildrenFound)

C6_Witness ==
    /\ Done
    /\ children_resp.kind = "ok"
    /\ children_resp.body.count = 0
    /\ outcome.msg = NoChildrenFound

(* C7: the reconciliation at the end of a pass removes exactly the        *)
(* devices of this config entry whose child id is not known; devices with *)
(* a known id and devices of other entries stay.                           *)
C7_ReconcileRemovesExactlyUnknown ==
    [][pc = "reconcile" =>
        /\ devices' \subseteq devices
        /\ \A d \in devices :
            d \in devices' <=>
                ~(ThisEntry \in d.config_entries /\ d.child \notin KnownIds)]_vars

(* A pass returned in which a listed child got no record at all and kept  *)
(* its device, a never seen child lost its device, and the other entry's  *)
(* device with that same id is still registered.                           *)
C7_Witness ==
    /\ PassReturned
    /\ \E c \in ListedIds :
        /\ data.child_data[c] = EmptyDict
        /\ Device(c, ThisEntry) \in devices
    /\ 1 \notin KnownIds
    /\ Device(1, ThisEntry) \notin devices
    /\ Device(1, OtherEntry) \in devices

C9_PassOutcomeClassified ==
    Done => outcome.kind \in {"returned", "ConfigEntryAuthFailed", "UpdateFailed"}

(* C10: a pass that fails with ConfigEntryAuthFailed or UpdateFailed      *)
(* leaves child_ids, the device registry and the endpoint URL map as they *)
(* were and sends no per-child fetch.                                      *)
C10_FailedPassChangesNothing ==
    [][(pc = "idle" /\ pc' = "idle" /\ lastOp' = "async_update"
            /\ outcome'.kind \in {"ConfigEntryAuthFailed", "UpdateFailed"})
        => /\ child_ids' = child_ids
           /\ devices' = devices
           /\ endpoints' = endpoints
           /\ issued' = <<>>
           /\ endpoint_resp' = EmptyDict]_vars

(* A pass failed after earlier passes had made ids known and had removed  *)
(* a device.                                                               *)
C10_Witness ==
    /\ Done
    /\ outcome.kind \in {"ConfigEntryAuthFailed", "UpdateFailed"}
    /\ child_ids # <<>>
    /\ devices # AllDevices
    /\ issued = <<>>

===========================================================================
